---------------------------- MODULE Spec2Model ----------------------------
(***************************************************************************)
(* A model of two parts of the hanabi-live server.                         *)
(*                                                                         *)
(*  1. The "return to lobby while mid-game" handler (exports.step1 of      *)
(*     src/unnamed/part_000), run by a single-threaded event loop: every   *)
(*     handler runs to completion, so it is one action.                    *)
(*  2. Persistence and recovery of tables (serializeTables and             *)
(*     restoreTables of src/server/src/serialize_tables.go), where the     *)
(*     serialization pass runs concurrently with action processing.        *)
(*                                                                         *)
(* The two parts share no state.  SpecLobby runs the first with the second *)
(* idle, SpecPersist the second with the first idle.                       *)
(***************************************************************************)
EXTENDS Integers, Sequences, FiniteSets, TLC

(***************************************************************************)
(* Bounds of the model.                                                    *)
(***************************************************************************)
\* Connected users; one session (socket) per user.
NumUsers == 3
\* Game (table) identifiers of the lobby part.
NumGames == 2
\* The turn counter of a lobby-part game is capped here.
MaxTurn == 1

\* Table identifiers of the persistence part.
NumTables == 2
\* Seats of a table of the persistence part.
NumSeats == 2
\* The action log of a game holds at most this many entries.
MaxLog == 3
\* Process starts (the first included) the model follows.
MaxBoots == 3
\* Pauses of a game the model follows.
MaxPause == 1
\* Clue tokens a game starts with, its maximum.
MaxClues == 1
\* The moves the turn timer forces on a table of one process.
MaxForced == 1
\* The card slots of the client's game, and the users other than the
\* client's own whose notes the client holds.
NumCards == 2
NumOthers == 1
\* The time budget, in seconds, a player of a timed game starts with.
InitTime == 30

Users == 1..NumUsers
GameIDs == 1..NumGames
TableIDs == 1..NumTables

(***************************************************************************)
(*                    PART 1: the leave-table handler                      *)
(***************************************************************************)
VARIABLES
    currentGames,   \* globals.currentGames: game id -> game object
    sockets,        \* per user: the session's status and atTable
    req,            \* the request handled last: [op, user, gameID]
    sent,           \* the notifications that request emitted, in order
    logged          \* the log lines that request wrote, in order

lobbyVars == <<currentGames, sockets, req, sent, logged>>

\* The state of the persistence part (part 2).
VARIABLES
    phase,        \* the server process: "boot" (restoreTables runs), "live",
                  \* "fatal" (startup died), "down" (exited after shutdown)
    boots,        \* process starts so far
    tables,       \* the table registry: table id -> *Table
    tablesMutex,  \* tablesMutex: the number of read locks held on it
    mutex,        \* t.Mutex of each table: "free", or its holder
    act,          \* per table: the action its holder of t.Mutex is applying
    ser,          \* serializeTables: [pc, todo, cur, buf, result], and src,
                  \* the table as it was when buf was encoded, and found,
                  \* the tables the range found ongoing (history)
    disk,         \* the tablesPath directory: [exists, files]
    rst,          \* restoreTables: [pc, files, i]: the names ReadDir listed
                  \* and the index of the loop over them
    spawned,      \* the goroutines restoreTables started, in order
    snap          \* history: table id -> the table as it was when the record
                  \* the last pass wrote for it was encoded

persistVars ==
    <<phase, boots, tables, tablesMutex, mutex, act, ser, disk, rst, spawned, snap>>

\* The state of the client's notes (part 3).
VARIABLES
    globals,      \* globals of the client: [ourNotes, allNotes, lastNote,
                  \* spectating, replay]
    cards,        \* globals.deck: per card slot [cluedBorder, noteBorder]
    conn,         \* the messages the last call sent on globals.lobby.conn
    noteReq       \* the last call or message handled (history)

notesVars == <<globals, cards, conn, noteReq>>

\* socket.atTable of a session that never attached to a table.
NoTable == [id |-> 0, spectating |-> FALSE]

\* A notification of the notify module: its kind, the game it is about
\* (data.gameID, 0 if none) and the socket it names (0 if none).
Notify(kind, gameID, user) == [kind |-> kind, gameID |-> gameID, user |-> user]

\* The users seated at a game, in seat order.
PlayerIDs(game) == {game.players[i].userID : i \in 1..Len(game.players)}

\* The seat of the first player whose userID is the socket's (0 if none):
\* the loop "for (let player of game.players) ... break".
FirstSeatOf(game, u) ==
    IF u \in PlayerIDs(game)
    THEN CHOOSE i \in 1..Len(game.players) :
            /\ game.players[i].userID = u
            /\ \A j \in 1..(i - 1) : game.players[j].userID # u
    ELSE 0

\* The check of the spectators list left out: every spectator-role request
\* goes on to the removal.
NotInSpectators_Unchecked(game, u) == FALSE

\* socket.userID in game.spectators === false
NotInSpectators(game, u) == u \notin game.spectators

\* The user left in the spectator mapping.
DeleteSpectator_Kept(spectators, u) == spectators

\* delete game.spectators[socket.userID]
DeleteSpectator(spectators, u) == spectators \ {u}

\* The decrement of the counter left out.
DecrementNumSpec_Skipped(n) == n

\* game.num_spec--
DecrementNumSpec(n) == n - 1

\* The loop without its userID test: every player is marked absent.
MarkAbsent_All(players, seat) ==
    [i \in 1..Len(players) |-> [players[i] EXCEPT !.present = FALSE]]

\* player.present = false for the player found by the loop.
MarkAbsent(players, seat) ==
    [i \in 1..Len(players) |->
        IF i = seat THEN [players[i] EXCEPT !.present = FALSE] ELSE players[i]]

\* socket.status = 'Lobby'
SetStatusLobby(socket) == [socket EXCEPT !.status = "Lobby"]

\* The spectator branch without notify.gameNumSpec.
SpectatorLeaveNotes_NoNumSpec(u, gameID) ==
    << Notify("allUserChange", 0, u), Notify("gameMemberChange", gameID, 0) >>

\* The notifications of the spectator branch, in order.
SpectatorLeaveNotes(u, gameID) ==
    << Notify("allUserChange", 0, u),
       Notify("gameMemberChange", gameID, 0),
       Notify("gameNumSpec", gameID, 0) >>

\* The notifications of the player branch, in order.
PlayerLeaveNotes(u, gameID, running) ==
    << Notify("allUserChange", 0, u),
       IF running THEN Notify("gameConnected", gameID, 0)
                  ELSE Notify("gameMemberChange", gameID, 0),
       Notify("playerTable", gameID, u) >>

(* exports.step1(socket, data): the whole handler.  The message is sent by *)
(* a session that is at a table ("in the middle of a game"): socket.atTable *)
(* is set.                                                                  *)
step1(u) ==
    LET socket == sockets[u]
        gameID == socket.atTable.id
    IN
    /\ socket.atTable # NoTable
    /\ req' = [op |-> "leave", user |-> u, gameID |-> gameID]
    \* "Set their status"
    /\ sockets' = [sockets EXCEPT ![u] = SetStatusLobby(socket)]
    /\ IF gameID \notin DOMAIN currentGames
       THEN \* "Validate that this table exists"
            /\ sent' = << Notify("allUserChange", 0, u) >>
            /\ logged' = << "info" >>
            /\ UNCHANGED currentGames
       ELSE
       LET game == currentGames[gameID] IN
       IF socket.atTable.spectating
       THEN IF NotInSpectators(game, u)
            THEN \* "they were not in the spectators list"
                 /\ sent' = << Notify("allUserChange", 0, u) >>
                 /\ logged' = << "error" >>
                 /\ UNCHANGED currentGames
            ELSE /\ currentGames' = [currentGames EXCEPT ![gameID] =
                        [game EXCEPT
                           !.spectators = DeleteSpectator(game.spectators, u),
                           !.num_spec = DecrementNumSpec(game.num_spec)]]
                 /\ sent' = SpectatorLeaveNotes(u, gameID)
                 /\ logged' = << >>
       ELSE /\ currentGames' = [currentGames EXCEPT ![gameID] =
                   [game EXCEPT !.players =
                       MarkAbsent(game.players, FirstSeatOf(game, u))]]
            /\ sent' = PlayerLeaveNotes(u, gameID, game.running)
            /\ logged' = << >>
    /\ UNCHANGED <<persistVars, notesVars>>

(***************************************************************************)
(* The handlers around step1.  Their code is not among the source files;   *)
(* they are modelled from the specification's data model (sections 3 and   *)
(* 4.3): a spectator attaches to a table, an absent player returns to the  *)
(* table, a lobby table starts, a running game advances its turn, a table  *)
(* is destroyed.                                                           *)
(***************************************************************************)
spectate(u, g) ==
    /\ sockets[u].status = "Lobby"
    /\ g \in DOMAIN currentGames
    /\ u \notin PlayerIDs(currentGames[g])
    /\ u \notin currentGames[g].spectators
    /\ currentGames' = [currentGames EXCEPT ![g] =
           [@ EXCEPT !.spectators = @ \cup {u}, !.num_spec = @ + 1]]
    /\ sockets' = [sockets EXCEPT ![u] =
           [status |-> "Spectating", atTable |-> [id |-> g, spectating |-> TRUE]]]
    /\ req' = [op |-> "spectate", user |-> u, gameID |-> g]
    /\ sent' = << Notify("allUserChange", 0, u),
                  Notify("gameMemberChange", g, 0),
                  Notify("gameNumSpec", g, 0) >>
    /\ logged' = << >>
    /\ UNCHANGED <<persistVars, notesVars>>

rejoin(u, g) ==
    /\ sockets[u].status = "Lobby"
    /\ g \in DOMAIN currentGames
    /\ u \in PlayerIDs(currentGames[g])
    /\ currentGames' = [currentGames EXCEPT ![g] =
           [@ EXCEPT !.players =
               [i \in 1..Len(@) |->
                   IF @[i].userID = u THEN [@[i] EXCEPT !.present = TRUE]
                                      ELSE @[i]]]]
    /\ sockets' = [sockets EXCEPT ![u] =
           [status |-> "Playing", atTable |-> [id |-> g, spectating |-> FALSE]]]
    /\ req' = [op |-> "rejoin", user |-> u, gameID |-> g]
    /\ sent' = << Notify("allUserChange", 0, u), Notify("gameConnected", g, 0) >>
    /\ logged' = << >>
    /\ UNCHANGED <<persistVars, notesVars>>

startGame(g) ==
    /\ g \in DOMAIN currentGames
    /\ ~currentGames[g].running
    /\ currentGames' = [currentGames EXCEPT ![g].running = TRUE]
    /\ req' = [op |-> "start", user |-> 0, gameID |-> g]
    /\ sent' = << Notify("gameStart", g, 0) >>
    /\ logged' = << >>
    /\ UNCHANGED sockets
    /\ UNCHANGED <<persistVars, notesVars>>

nextTurn(g) ==
    /\ g \in DOMAIN currentGames
    /\ currentGames[g].running
    /\ currentGames[g].turn < MaxTurn
    /\ currentGames' = [currentGames EXCEPT ![g].turn = @ + 1]
    /\ req' = [op |-> "turn", user |-> 0, gameID |-> g]
    /\ sent' = << Notify("gameAction", g, 0) >>
    /\ logged' = << >>
    /\ UNCHANGED sockets
    /\ UNCHANGED <<persistVars, notesVars>>

endGame(g) ==
    /\ g \in DOMAIN currentGames
    /\ currentGames' = [x \in DOMAIN currentGames \ {g} |-> currentGames[x]]
    /\ req' = [op |-> "end", user |-> 0, gameID |-> g]
    /\ sent' = << Notify("tableGone", g, 0) >>
    /\ logged' = << >>
    /\ UNCHANGED sockets
    /\ UNCHANGED <<persistVars, notesVars>>

\* The users seated at game g under a seating (user -> game, 0: no seat),
\* in ascending order.
RECURSIVE SeatedFrom(_, _, _)
SeatedFrom(seatOf, g, u) ==
    IF u > NumUsers THEN << >>
    ELSE (IF seatOf[u] = g THEN << [userID |-> u, present |-> TRUE] >> ELSE << >>)
         \o SeatedFrom(seatOf, g, u + 1)

\* The seating the server starts from: users 1 and 2 play at game 1, every
\* other user has no seat.
InitialSeat(u) == IF u <= 2 THEN 1 ELSE 0

(***************************************************************************)
(*                  PART 2: persistence and recovery of tables             *)
(***************************************************************************)
\* The grace allowance of a restored timed table: 20 * time.Second.
GraceSeconds == 20

\* The name of the housekeeping file ".gitignore"; the record of table id
\* is named by the id (strconv.FormatUint(t.ID, 10) + ".json").  ReadDir
\* lists names in ascending order, ".gitignore" first.
GitIgnore == 0
TableFilename(id) == id

\* nil, for a reference to a table or to a game (a game is named by the id
\* of the table that owns it).
Nil == 0

\* The zero Options value a decoded Game holds before it is re-linked.
NilOptions == [Timed |-> FALSE, linked |-> FALSE]
Options(timed) == [Timed |-> timed, linked |-> TRUE]

\* The Go types of the action-log entries, by their "type" field.
ActionKinds == {"draw", "clue", "play", "discard", "turn", "gameOver"}
GoTypeOf(kind) ==
    CASE kind = "draw" -> "ActionDraw"
      [] kind = "clue" -> "ActionClue"
      [] kind = "play" -> "ActionPlay"
      [] kind = "discard" -> "ActionDiscard"
      [] kind = "turn" -> "ActionTurn"
      [] kind = "gameOver" -> "ActionGameOver"

\* An action-log entry as the game appends it: a value of the kind's struct.
Action(kind, arg) == [goType |-> GoTypeOf(kind), type |-> kind, arg |-> arg]

\* The Game of a table that has not started.
NoGame ==
    [Table |-> Nil, Options |-> NilOptions, ExtraOptions |-> NilOptions,
     Players |-> << >>, Actions |-> << >>, Stacks |-> << >>,
     DiscardPile |-> << >>, ClueTokens |-> 0, Turn |-> 0, PauseCount |-> 0,
     ActivePlayerIndex |-> 0]

(***************************************************************************)
(* json.Marshal(t) and json.Unmarshal(tableJSON, t).  The encoded form     *)
(* leaves out the fields tagged json:"-" (the Game's Table, Options and    *)
(* ExtraOptions, each game player's Game) and holds every action as a JSON *)
(* object, which has no Go type.  Decoding into &Table{} leaves the        *)
(* omitted fields at their zero value and yields each action, an element   *)
(* of a []interface{}, as a map[string]interface{}.                        *)
(***************************************************************************)
MarshalAction(a) == [type |-> a.type, arg |-> a.arg]

MarshalGame(g) ==
    [Players |-> [i \in 1..Len(g.Players) |-> [Time |-> g.Players[i].Time]],
     Actions |-> [i \in 1..Len(g.Actions) |-> MarshalAction(g.Actions[i])],
     Stacks |-> g.Stacks, DiscardPile |-> g.DiscardPile,
     ClueTokens |-> g.ClueTokens, Turn |-> g.Turn, PauseCount |-> g.PauseCount,
     ActivePlayerIndex |-> g.ActivePlayerIndex]

Marshal(t) ==
    [ID |-> t.ID, Running |-> t.Running, Replay |-> t.Replay,
     Players |-> t.Players, Options |-> t.Options,
     ExtraOptions |-> t.ExtraOptions, Game |-> MarshalGame(t.Game)]

UnmarshalAction(j) == [goType |-> "map", type |-> j.type, arg |-> j.arg]

UnmarshalGame(j) ==
    [Table |-> Nil, Options |-> NilOptions, ExtraOptions |-> NilOptions,
     Players |-> [i \in 1..Len(j.Players) |->
                     [Time |-> j.Players[i].Time, Game |-> Nil]],
     Actions |-> [i \in 1..Len(j.Actions) |-> UnmarshalAction(j.Actions[i])],
     Stacks |-> j.Stacks, DiscardPile |-> j.DiscardPile,
     ClueTokens |-> j.ClueTokens, Turn |-> j.Turn, PauseCount |-> j.PauseCount,
     ActivePlayerIndex |-> j.ActivePlayerIndex]

Unmarshal(j) ==
    [ID |-> j.ID, Running |-> j.Running, Replay |-> j.Replay,
     Players |-> j.Players, Options |-> j.Options,
     ExtraOptions |-> j.ExtraOptions, Game |-> UnmarshalGame(j.Game)]

(***************************************************************************)
(* The repairs restoreTables makes to a decoded table, in its order.       *)
(***************************************************************************)
\* The references of the Game restored and those of its players left out.
RestoreReferences_GameOnly(t) ==
    [t EXCEPT !.Game =
        [@ EXCEPT !.Table = t.ID,
                  !.Options = t.Options,
                  !.ExtraOptions = t.ExtraOptions]]

\* g.Table = t; g.Options = t.Options; g.ExtraOptions = t.ExtraOptions;
\* gp.Game = g for every game player.
RestoreReferences(t) ==
    [t EXCEPT !.Game =
        [@ EXCEPT !.Table = t.ID,
                  !.Options = t.Options,
                  !.ExtraOptions = t.ExtraOptions,
                  !.Players = [i \in 1..Len(@) |-> [@[i] EXCEPT !.Game = t.ID]]]]

\* mapstructure.Decode(a, &actionDraw): the map's fields in an ActionDraw.
DecodeDraw(a) == [goType |-> "ActionDraw", type |-> a.type, arg |-> a.arg]

\* The loop over g.Actions: an entry whose "type" is "draw" becomes an
\* ActionDraw, every other entry stays as decoded.
RestoreActionType(a) == IF a.type = "draw" THEN DecodeDraw(a) ELSE a

RestoreActionTypes(t) ==
    [t EXCEPT !.Game.Actions = [i \in 1..Len(@) |-> RestoreActionType(@[i])]]

\* p.Present = false for every table player.
MarkNotPresent(t) ==
    [t EXCEPT !.Players = [i \in 1..Len(@) |-> [@[i] EXCEPT !.Present = FALSE]]]

\* The grace allowance given to the first player instead of the active one.
AddGraceTime_FirstPlayer(t) ==
    IF t.Game.Options.Timed
    THEN [t EXCEPT !.Game.Players[1].Time = @ + GraceSeconds]
    ELSE t

\* g.Players[g.ActivePlayerIndex].Time += 20 * time.Second, if g.Options.Timed.
\* (ActivePlayerIndex counts from 0.)
AddGraceTime(t) ==
    IF t.Game.Options.Timed
    THEN [t EXCEPT !.Game.Players[t.Game.ActivePlayerIndex + 1].Time =
                        @ + GraceSeconds]
    ELSE t

\* The watcher armed for the first turn whatever the recovered turn is.
TimerGoroutines_FirstTurn(t) ==
    IF t.Game.Options.Timed
    THEN << [fn |-> "CheckTimer", id |-> t.ID, turn |-> 0,
             pauseCount |-> t.Game.PauseCount,
             player |-> t.Game.ActivePlayerIndex] >>
    ELSE << >>

\* go g.CheckTimer(g.Turn, g.PauseCount, g.Players[g.ActivePlayerIndex]),
\* if g.Options.Timed: the goroutines the statement starts.
TimerGoroutines(t) ==
    IF t.Game.Options.Timed
    THEN << [fn |-> "CheckTimer", id |-> t.ID, turn |-> t.Game.Turn,
             pauseCount |-> t.Game.PauseCount,
             player |-> t.Game.ActivePlayerIndex] >>
    ELSE << >>

\* go t.CheckIdle()
IdleGoroutine(t) ==
    [fn |-> "CheckIdle", id |-> t.ID, turn |-> 0, pauseCount |-> 0, player |-> 0]

\* The table restoreTables puts in the registry for a decoded record.
RestoredTable(j) ==
    AddGraceTime(MarkNotPresent(RestoreActionTypes(RestoreReferences(Unmarshal(j)))))

(***************************************************************************)
(* The process around the two functions.  The code that creates tables,    *)
(* starts games, processes actions and calls serializeTables on shutdown   *)
(* is not among the source files; it is modelled from the specification    *)
(* (sections 3, 4.2, 4.3 and 5): every action on a table holds the table's *)
(* exclusive lock from its validation to the end of its mutation, and      *)
(* shutdown waits for the commands in flight (commandWaitGroup) before it  *)
(* starts the serialization pass.                                          *)
(***************************************************************************)
ExtraOptions == [Timed |-> FALSE, linked |-> TRUE]

NewTable(id, timed) ==
    [ID |-> id, Running |-> FALSE, Replay |-> FALSE,
     Players |-> [i \in 1..NumSeats |-> [Present |-> TRUE]],
     Options |-> Options(timed), ExtraOptions |-> ExtraOptions, Game |-> NoGame]

NewGame(t) ==
    [Table |-> t.ID, Options |-> t.Options, ExtraOptions |-> t.ExtraOptions,
     Players |-> [i \in 1..NumSeats |->
                     [Time |-> IF t.Options.Timed THEN InitTime ELSE 0,
                      Game |-> t.ID]],
     Actions |-> << Action("draw", 0) >>, Stacks |-> << 0 >>,
     DiscardPile |-> << >>, ClueTokens |-> MaxClues, Turn |-> 0,
     PauseCount |-> 0, ActivePlayerIndex |-> 0]

\* A table in the state in which actions are accepted.
Ongoing(t) == t.Running /\ ~t.Replay

CreateTable(id, timed) ==
    /\ phase = "live"
    /\ id \notin DOMAIN tables
    /\ tablesMutex = 0
    /\ tables' = [x \in DOMAIN tables \cup {id} |->
                     IF x = id THEN NewTable(id, timed) ELSE tables[x]]
    /\ UNCHANGED <<phase, boots, tablesMutex, mutex, act, ser, disk, rst,
                   spawned, snap>>
    /\ UNCHANGED <<lobbyVars, notesVars>>

StartGame(id) ==
    /\ phase = "live"
    /\ id \in DOMAIN tables
    /\ ~tables[id].Running
    /\ mutex[id] = "free"
    /\ tables' = [tables EXCEPT ![id] =
           [@ EXCEPT !.Running = TRUE, !.Game = NewGame(tables[id])]]
    /\ UNCHANGED <<phase, boots, tablesMutex, mutex, act, ser, disk, rst,
                   spawned, snap>>
    /\ UNCHANGED <<lobbyVars, notesVars>>

\* The first half of an action of a kind: the entry of the kind is appended
\* and the piles and tokens follow it.
ApplyFirstHalf(g, kind) ==
    [g EXCEPT
       !.Actions = Append(@, Action(kind, g.ActivePlayerIndex)),
       !.ClueTokens = CASE kind = "clue" -> @ - 1
                        [] kind = "discard" /\ @ < MaxClues -> @ + 1
                        [] OTHER -> @,
       !.Stacks = IF kind = "play" THEN [@ EXCEPT ![1] = @ + 1] ELSE @,
       !.DiscardPile = IF kind = "discard" THEN Append(@, Len(g.Actions)) ELSE @]

\* The second half: the turn entry, the turn index and the active player.
ApplySecondHalf(g) ==
    [g EXCEPT
       !.Actions = Append(@, Action("turn", g.Turn + 1)),
       !.Turn = @ + 1,
       !.ActivePlayerIndex = (@ + 1) % NumSeats]

\* An action takes the table's lock, validates and applies its first half.
ActionBegin(id, kind) ==
    /\ phase = "live"
    /\ id \in DOMAIN tables
    /\ Ongoing(tables[id])
    /\ mutex[id] = "free"
    /\ Len(tables[id].Game.Actions) + (IF kind = "gameOver" THEN 1 ELSE 2) <= MaxLog
    /\ kind = "clue" => tables[id].Game.ClueTokens > 0
    /\ mutex' = [mutex EXCEPT ![id] = "action"]
    /\ act' = [act EXCEPT ![id] = kind]
    /\ tables' = [tables EXCEPT ![id].Game = ApplyFirstHalf(@, kind)]
    /\ UNCHANGED <<phase, boots, tablesMutex, ser, disk, rst, spawned, snap>>
    /\ UNCHANGED <<lobbyVars, notesVars>>

\* The action applies its second half and releases the lock.  A game-over
\* turns the table into a replay.
ActionEnd(id) ==
    /\ phase = "live"
    /\ mutex[id] = "action"
    /\ tables' = [tables EXCEPT ![id] =
           IF act[id] = "gameOver"
           THEN [@ EXCEPT !.Replay = TRUE]
           ELSE [@ EXCEPT !.Game = ApplySecondHalf(@)]]
    /\ mutex' = [mutex EXCEPT ![id] = "free"]
    /\ act' = [act EXCEPT ![id] = "idle"]
    /\ UNCHANGED <<phase, boots, tablesMutex, ser, disk, rst, spawned, snap>>
    /\ UNCHANGED <<lobbyVars, notesVars>>

\* A pause of the game, under the table's lock.
Pause(id) ==
    /\ phase = "live"
    /\ id \in DOMAIN tables
    /\ Ongoing(tables[id])
    /\ tables[id].Options.Timed
    /\ mutex[id] = "free"
    /\ tables[id].Game.PauseCount < MaxPause
    /\ tables' = [tables EXCEPT ![id].Game.PauseCount = @ + 1]
    /\ UNCHANGED <<phase, boots, tablesMutex, mutex, act, ser, disk, rst,
                   spawned, snap>>
    /\ UNCHANGED <<lobbyVars, notesVars>>

(***************************************************************************)
(* serializeTables, a step per blocking or failing operation.              *)
(***************************************************************************)
SerIdle == [pc |-> "idle", todo |-> {}, cur |-> Nil, buf |-> [ID |-> Nil],
            src |-> [ID |-> Nil], found |-> {}, result |-> "none"]

\* restoreTables when it does not run.
RstIdle == [pc |-> "idle", files |-> << >>, i |-> 1]

\* A file of the directory: whether ReadFile succeeds on it, whether its
\* bytes decode into a Table, and the encoded table.
File(j) == [readable |-> TRUE, valid |-> TRUE, json |-> j]
GitIgnoreFile == [readable |-> TRUE, valid |-> FALSE, json |-> [ID |-> Nil]]

\* "if !t.Running || t.Replay": the table is skipped.
Skipped(t) == ~t.Running \/ t.Replay

\* ioutil.WriteFile(tablePath, tableJSON, 0600) on the directory.
WriteFile(d, name, j) ==
    [d EXCEPT !.files = [x \in DOMAIN d.files \cup {name} |->
                            IF x = name THEN File(j) ELSE d.files[x]]]

\* Shutdown calls serializeTables once the commands in flight have ended:
\* tablesMutex.RLock(), and the range over the tables begins.
SerializeBegin ==
    /\ phase = "live"
    /\ ser.pc = "idle"
    /\ \A id \in TableIDs : act[id] = "idle"
    /\ tablesMutex' = tablesMutex + 1
    /\ ser' = [SerIdle EXCEPT !.pc = "range", !.todo = DOMAIN tables]
    /\ snap' = << >>
    /\ UNCHANGED <<phase, boots, tables, mutex, act, disk, rst, spawned>>
    /\ UNCHANGED <<lobbyVars, notesVars>>

\* The next table of the range, in any order (the range over a map); its
\* flags are read without its lock.  With no table left the deferred
\* RUnlock runs and the function returns true.
SerializeNext ==
    /\ phase = "live"
    /\ ser.pc = "range"
    /\ IF ser.todo = {}
       THEN /\ ser' = [ser EXCEPT !.pc = "returned", !.result = "true"]
            /\ tablesMutex' = tablesMutex - 1
       ELSE /\ \E id \in ser.todo :
                  ser' = [ser EXCEPT !.todo = @ \ {id},
                                     !.cur = id,
                                     !.found = IF Skipped(tables[id])
                                               THEN @ ELSE @ \cup {id},
                                     !.pc = IF Skipped(tables[id])
                                            THEN "range" ELSE "lock"]
            /\ UNCHANGED tablesMutex
    /\ UNCHANGED <<phase, boots, tables, mutex, act, disk, rst, spawned, snap>>
    /\ UNCHANGED <<lobbyVars, notesVars>>

\* The range going on to the encoding without the table's lock.
SerializeLock_NoLock ==
    /\ phase = "live"
    /\ ser.pc = "lock"
    /\ ser' = [ser EXCEPT !.pc = "marshal"]
    /\ UNCHANGED <<phase, boots, tables, tablesMutex, mutex, act, disk, rst,
                   spawned, snap>>
    /\ UNCHANGED <<lobbyVars, notesVars>>

\* t.Mutex.Lock()
SerializeLock ==
    /\ phase = "live"
    /\ ser.pc = "lock"
    /\ mutex[ser.cur] = "free"
    /\ mutex' = [mutex EXCEPT ![ser.cur] = "serializeTables"]
    /\ ser' = [ser EXCEPT !.pc = "marshal"]
    /\ UNCHANGED <<phase, boots, tables, tablesMutex, act, disk, rst, spawned,
                   snap>>
    /\ UNCHANGED <<lobbyVars, notesVars>>

\* The encoding that keeps the table's lock when it succeeds.
SerializeMarshal_KeepLock(ok) ==
    /\ phase = "live"
    /\ ser.pc = "marshal"
    /\ IF ok
       THEN /\ ser' = [ser EXCEPT !.pc = "write",
                                     !.buf = Marshal(tables[ser.cur]),
                                     !.src = tables[ser.cur]]
            /\ UNCHANGED tablesMutex
       ELSE /\ ser' = [ser EXCEPT !.pc = "returned", !.result = "false"]
            /\ tablesMutex' = tablesMutex - 1
    /\ UNCHANGED <<phase, boots, tables, mutex, act, disk, rst, spawned, snap>>
    /\ UNCHANGED <<lobbyVars, notesVars>>

\* json.Marshal(t).  On success t.Mutex.Unlock() follows; on an error the
\* function returns false with the deferred RUnlock only.
SerializeMarshal(ok) ==
    /\ phase = "live"
    /\ ser.pc = "marshal"
    /\ IF ok
       THEN /\ ser' = [ser EXCEPT !.pc = "write",
                                     !.buf = Marshal(tables[ser.cur]),
                                     !.src = tables[ser.cur]]
            /\ mutex' = [mutex EXCEPT ![ser.cur] = "free"]
            /\ UNCHANGED tablesMutex
       ELSE /\ ser' = [ser EXCEPT !.pc = "returned", !.result = "false"]
            /\ tablesMutex' = tablesMutex - 1
            /\ UNCHANGED mutex
    /\ UNCHANGED <<phase, boots, tables, act, disk, rst, spawned, snap>>
    /\ UNCHANGED <<lobbyVars, notesVars>>

\* The write whose failure is passed over: the range goes on.
SerializeWrite_Continue(ok) ==
    /\ phase = "live"
    /\ ser.pc = "write"
    /\ IF ok /\ disk.exists
       THEN /\ disk' = WriteFile(disk, TableFilename(ser.cur), ser.buf)
            /\ snap' = [x \in DOMAIN snap \cup {ser.cur} |->
                           IF x = ser.cur THEN ser.src ELSE snap[x]]
       ELSE UNCHANGED <<disk, snap>>
    /\ ser' = [ser EXCEPT !.pc = "range"]
    /\ UNCHANGED <<phase, boots, tables, tablesMutex, mutex, act, rst, spawned>>
    /\ UNCHANGED <<lobbyVars, notesVars>>

\* ioutil.WriteFile(tablePath, tableJSON, 0600), which fails when the
\* directory is missing and may fail otherwise.
SerializeWrite(ok) ==
    /\ phase = "live"
    /\ ser.pc = "write"
    /\ IF ok /\ disk.exists
       THEN /\ disk' = WriteFile(disk, TableFilename(ser.cur), ser.buf)
            /\ ser' = [ser EXCEPT !.pc = "range"]
            /\ snap' = [x \in DOMAIN snap \cup {ser.cur} |->
                           IF x = ser.cur THEN ser.src ELSE snap[x]]
            /\ UNCHANGED tablesMutex
       ELSE /\ ser' = [ser EXCEPT !.pc = "returned", !.result = "false"]
            /\ tablesMutex' = tablesMutex - 1
            /\ UNCHANGED <<disk, snap>>
    /\ UNCHANGED <<phase, boots, tables, mutex, act, rst, spawned>>
    /\ UNCHANGED <<lobbyVars, notesVars>>

\* The process exits after the pass has returned: its memory is gone.
Exit ==
    /\ phase = "live"
    /\ ser.pc = "returned"
    /\ phase' = "down"
    /\ tables' = << >>
    /\ tablesMutex' = 0
    /\ mutex' = [id \in TableIDs |-> "free"]
    /\ act' = [id \in TableIDs |-> "idle"]
    /\ ser' = SerIdle
    /\ rst' = RstIdle
    /\ spawned' = << >>
    /\ UNCHANGED <<boots, disk, snap>>
    /\ UNCHANGED <<lobbyVars, notesVars>>

(***************************************************************************)
(* restoreTables, a step for ReadDir, a step per file of the loop and a    *)
(* step for the return.  log.Fatal and logger.Fatal end the process.       *)
(***************************************************************************)
\* The names of a set of files in ReadDir's order (ascending).
RECURSIVE SortedNames(_)
SortedNames(names) ==
    IF names = {} THEN << >>
    ELSE LET least == CHOOSE n \in names : \A m \in names : n <= m
         IN << least >> \o SortedNames(names \ {least})

\* "if f.Name() == ".gitignore" { continue }"
IsIgnored(name) == name = GitIgnore

\* The removal of the record left out.
RemoveFile_Kept(d, name) == d

\* os.Remove(tablePath) on the directory.
RemoveFile(d, name) ==
    [d EXCEPT !.files = [x \in DOMAIN d.files \ {name} |-> d.files[x]]]

\* tables[t.ID] = t
InsertTable(reg, t) ==
    [x \in DOMAIN reg \cup {t.ID} |-> IF x = t.ID THEN t ELSE reg[x]]

\* A process starts: its memory is fresh, and restoreTables runs before
\* anything else.
Start ==
    /\ phase \in {"down", "fatal"}
    /\ boots < MaxBoots
    /\ phase' = "boot"
    /\ boots' = boots + 1
    /\ tables' = << >>
    /\ tablesMutex' = 0
    /\ mutex' = [id \in TableIDs |-> "free"]
    /\ act' = [id \in TableIDs |-> "idle"]
    /\ ser' = SerIdle
    /\ rst' = [RstIdle EXCEPT !.pc = "readdir"]
    /\ spawned' = << >>
    /\ UNCHANGED <<disk, snap>>
    /\ UNCHANGED <<lobbyVars, notesVars>>

\* ioutil.ReadDir(tablesPath)
RestoreReadDir ==
    /\ phase = "boot"
    /\ rst.pc = "readdir"
    /\ IF disk.exists
       THEN /\ rst' = [pc |-> "loop", files |-> SortedNames(DOMAIN disk.files),
                       i |-> 1]
            /\ UNCHANGED phase
       ELSE /\ phase' = "fatal"
            /\ UNCHANGED rst
    /\ UNCHANGED <<boots, tables, tablesMutex, mutex, act, ser, disk, spawned,
                   snap>>
    /\ UNCHANGED <<lobbyVars, notesVars>>

\* One iteration of the loop over the files; removed says whether os.Remove
\* succeeds.
RestoreFile(removed) ==
    /\ phase = "boot"
    /\ rst.pc = "loop"
    /\ rst.i <= Len(rst.files)
    /\ LET name == rst.files[rst.i]
           file == disk.files[name]
           t == RestoredTable(file.json)
       IN
       IF IsIgnored(name)
       THEN /\ rst' = [rst EXCEPT !.i = @ + 1]
            /\ UNCHANGED <<phase, tables, disk, spawned>>
       ELSE IF ~file.readable \/ ~file.valid
       THEN \* ReadFile or Unmarshal fails
            /\ phase' = "fatal"
            /\ UNCHANGED <<rst, tables, disk, spawned>>
       ELSE /\ tables' = InsertTable(tables, t)
            /\ IF removed
               THEN /\ disk' = RemoveFile(disk, name)
                    /\ spawned' = spawned \o TimerGoroutines(t)
                                          \o << IdleGoroutine(t) >>
                    /\ rst' = [rst EXCEPT !.i = @ + 1]
                    /\ UNCHANGED phase
               ELSE /\ phase' = "fatal"
                    /\ spawned' = spawned \o TimerGoroutines(t)
                    /\ UNCHANGED <<rst, disk>>
    /\ UNCHANGED <<boots, tablesMutex, mutex, act, ser, snap>>
    /\ UNCHANGED <<lobbyVars, notesVars>>

\* The loop is over: restoreTables returns and the server is started.
RestoreReturn ==
    /\ phase = "boot"
    /\ rst.pc = "loop"
    /\ rst.i > Len(rst.files)
    /\ rst' = [rst EXCEPT !.pc = "done"]
    /\ phase' = "live"
    /\ UNCHANGED <<boots, tables, tablesMutex, mutex, act, ser, disk, spawned,
                   snap>>
    /\ UNCHANGED <<lobbyVars, notesVars>>

\* While the server is down a record may become unreadable or undecodable
\* (the failures the code of restoreTables provides for).
Damage(id, how) ==
    /\ phase = "down"
    /\ disk.exists
    /\ id \in DOMAIN disk.files
    /\ id # GitIgnore
    /\ disk.files[id].readable /\ disk.files[id].valid
    /\ disk' = [disk EXCEPT !.files[id] =
           IF how = "unreadable" THEN [@ EXCEPT !.readable = FALSE]
                                 ELSE [@ EXCEPT !.valid = FALSE]]
    /\ UNCHANGED <<phase, boots, tables, tablesMutex, mutex, act, ser, rst,
                   spawned, snap>>
    /\ UNCHANGED <<lobbyVars, notesVars>>

(***************************************************************************)
(*                     PART 3: the notes of the client                     *)
(***************************************************************************)
Orders == 1..NumCards

\* globals.lobby.username, and the names of the other users.
Username == 0
OtherNames == 1..NumOthers

\* The texts of a note; none of them holds a pipe.
NoteTexts == {"", "cm"}

\* The entries of globals.allNotes[order] that carry our name get the note
\* (lines 38-42); here every entry gets it.
SetOwnEntries_All(list, name, note) ==
    [i \in 1..Len(list) |-> [list[i] EXCEPT !.note = note]]

\* for (const noteObject of globals.allNotes[order]) { if (noteObject.name
\* === globals.lobby.username) { noteObject.note = note; } }
SetOwnEntries(list, name, note) ==
    [i \in 1..Len(list) |->
        IF list[i].name = name THEN [list[i] EXCEPT !.note = note] ELSE list[i]]

\* note.includes('cm'), for the texts of NoteTexts.
IncludesCm(note) == note = "cm"

\* checkSpecialNote(card): nothing for a spectator or in a replay; for a
\* player the chop-move border follows the note (the texts of NoteTexts
\* name no card, so morph clears the note identity and changes no note).
checkSpecialNote(card, note, g) ==
    IF g.spectating \/ g.replay
    THEN card
    ELSE [card EXCEPT !.noteBorder = ~card.cluedBorder /\ IncludesCm(note)]

\* set(order, note): the whole function.
set(order, note) ==
    LET oldNote == globals.ourNotes[order] IN
    /\ globals' = [globals EXCEPT
           !.ourNotes[order] = note,
           !.allNotes[order] = IF globals.spectating
                               THEN SetOwnEntries(@, Username, note)
                               ELSE @,
           !.lastNote = note]
    /\ conn' = IF ~globals.replay /\ note # oldNote
               THEN << [cmd |-> "note", order |-> order, note |-> note] >>
               ELSE << >>
    /\ cards' = [cards EXCEPT ![order] = checkSpecialNote(@, note, globals)]
    /\ noteReq' = [op |-> "set", order |-> order, note |-> note]
    /\ UNCHANGED <<lobbyVars, persistVars>>

\* The server tells a spectator, or the viewer of a replay, the note
\* another user has on a card.  The handler of that message is not among
\* the source files; it is modelled from the specification (section 3).
noteReceived(order, name, note) ==
    /\ globals.spectating \/ globals.replay
    /\ globals' = [globals EXCEPT !.allNotes[order] =
           [i \in 1..Len(@) |->
               IF @[i].name = name THEN [@[i] EXCEPT !.note = note] ELSE @[i]]]
    /\ conn' = << >>
    /\ noteReq' = [op |-> "received", order |-> order, note |-> note]
    /\ UNCHANGED cards
    /\ UNCHANGED <<lobbyVars, persistVars>>

vars == <<lobbyVars, persistVars, notesVars>>

\* The notes of a client that is in no game.
NoGlobals ==
    [ourNotes |-> [o \in Orders |-> ""],
     allNotes |-> [o \in Orders |-> << >>],
     lastNote |-> "", spectating |-> FALSE, replay |-> FALSE]

\* The lobby part starts with every game in the lobby state: the seated
\* users are present at their game, the others are in the lobby.  The
\* persistence part is at rest (a process that never starts).
InitLobby ==
    /\ currentGames = [g \in GameIDs |->
           [running |-> FALSE,
            players |-> SeatedFrom([u \in Users |-> InitialSeat(u)], g, 1),
            spectators |-> {}, num_spec |-> 0, turn |-> 0]]
    /\ sockets = [u \in Users |->
           IF InitialSeat(u) = 0
           THEN [status |-> "Lobby", atTable |-> NoTable]
           ELSE [status |-> "Playing",
                 atTable |-> [id |-> InitialSeat(u), spectating |-> FALSE]]]
    /\ req = [op |-> "none", user |-> 0, gameID |-> 0]
    /\ sent = << >>
    /\ logged = << >>
    /\ phase = "down"
    /\ boots = MaxBoots
    /\ tables = << >>
    /\ tablesMutex = 0
    /\ mutex = [id \in TableIDs |-> "free"]
    /\ act = [id \in TableIDs |-> "idle"]
    /\ ser = SerIdle
    /\ disk = [exists |-> TRUE, files |-> (GitIgnore :> GitIgnoreFile)]
    /\ rst = RstIdle
    /\ spawned = << >>
    /\ snap = << >>
    /\ globals = NoGlobals
    /\ cards = [o \in Orders |-> [cluedBorder |-> FALSE, noteBorder |-> FALSE]]
    /\ conn = << >>
    /\ noteReq = [op |-> "none", order |-> 0, note |-> ""]

\* The persistence part starts with a first start of the server, on a
\* directory that holds the housekeeping file only or that is missing.  The
\* lobby part is at rest (no games, every user in the lobby).
InitPersist ==
    /\ phase = "boot"
    /\ boots = 1
    /\ tables = << >>
    /\ tablesMutex = 0
    /\ mutex = [id \in TableIDs |-> "free"]
    /\ act = [id \in TableIDs |-> "idle"]
    /\ ser = SerIdle
    /\ \E exists \in BOOLEAN :
          disk = [exists |-> exists,
                  files |-> IF exists THEN (GitIgnore :> GitIgnoreFile) ELSE << >>]
    /\ rst = [RstIdle EXCEPT !.pc = "readdir"]
    /\ spawned = << >>
    /\ snap = << >>
    /\ currentGames = << >>
    /\ sockets = [u \in Users |-> [status |-> "Lobby", atTable |-> NoTable]]
    /\ req = [op |-> "none", user |-> 0, gameID |-> 0]
    /\ sent = << >>
    /\ logged = << >>
    /\ globals = NoGlobals
    /\ cards = [o \in Orders |-> [cluedBorder |-> FALSE, noteBorder |-> FALSE]]
    /\ conn = << >>
    /\ noteReq = [op |-> "none", order |-> 0, note |-> ""]

NextPersist ==
    \/ \E id \in TableIDs, timed \in BOOLEAN : CreateTable(id, timed)
    \/ \E id \in TableIDs : StartGame(id)
    \/ \E id \in TableIDs, kind \in {"clue", "play", "discard", "gameOver"} :
          ActionBegin(id, kind)
    \/ \E id \in TableIDs : ActionEnd(id)
    \/ \E id \in TableIDs : Pause(id)
    \/ SerializeBegin
    \/ SerializeNext
    \/ SerializeLock
    \/ \E ok \in BOOLEAN : SerializeMarshal(ok)
    \/ \E ok \in BOOLEAN : SerializeWrite(ok)
    \/ Exit
    \/ Start
    \/ RestoreReadDir
    \/ \E removed \in BOOLEAN : RestoreFile(removed)
    \/ RestoreReturn
    \/ \E id \in TableIDs, how \in {"unreadable", "undecodable"} : Damage(id, how)

SpecPersist == InitPersist /\ [][NextPersist]_vars

(***************************************************************************)
(* The turn timer.  CheckTimer is started by restoreTables (line 123) but  *)
(* is not among the source files; it is modelled from the specification    *)
(* (section 4.4): when the countdown of the watcher elapses it takes the   *)
(* table's lock; a watcher whose turn, pause count or active player is no  *)
(* longer the table's, or whose game is over, ends without effect; any     *)
(* other applies the default move through the path of a client's action    *)
(* and arms the watcher of the next turn.                                  *)
(***************************************************************************)
\* The watchers of a table that have ended in this process.
Ended(id) == {k \in 1..Len(spawned) : spawned[k].fn = "done" /\ spawned[k].id = id}

\* The watcher is stale.
Stale(w, t) ==
    \/ ~Ongoing(t)
    \/ t.Game.Turn # w.turn
    \/ t.Game.PauseCount # w.pauseCount
    \/ t.Game.ActivePlayerIndex # w.player

\* The default move: a discard by the active player, both halves.
DefaultMove(g) == ApplySecondHalf(ApplyFirstHalf(g, "discard"))

\* The countdown of the armed watcher of table id elapses.
CheckTimer(id) ==
    /\ phase = "live"
    /\ id \in DOMAIN tables
    /\ mutex[id] = "free"
    /\ \E k \in 1..Len(spawned) :
          /\ spawned[k].fn = "CheckTimer"
          /\ spawned[k].id = id
          /\ LET w == spawned[k]
                 ended == [spawned EXCEPT ![k].fn = "done"]
                 moved == [tables[id] EXCEPT !.Game = DefaultMove(@)]
             IN
             IF Stale(w, tables[id])
             THEN /\ spawned' = ended
                  /\ UNCHANGED tables
             ELSE /\ tables' = [tables EXCEPT ![id] = moved]
                  /\ spawned' = IF Cardinality(Ended(id)) + 1 < MaxForced
                                 THEN ended \o TimerGoroutines(moved)
                                 ELSE ended
    /\ UNCHANGED <<phase, boots, tablesMutex, mutex, act, ser, disk, rst, snap>>
    /\ UNCHANGED <<lobbyVars, notesVars>>

\* The clients act, and the server is shut down, in the first process only:
\* a process that has recovered its tables is left to its timers.
FirstProcess == boots = 1

NextTimer ==
    \/ \E id \in TableIDs, timed \in BOOLEAN : FirstProcess /\ CreateTable(id, timed)
    \/ \E id \in TableIDs : FirstProcess /\ StartGame(id)
    \/ \E id \in TableIDs, kind \in {"clue", "play", "discard", "gameOver"} :
          FirstProcess /\ ActionBegin(id, kind)
    \/ \E id \in TableIDs : FirstProcess /\ ActionEnd(id)
    \/ \E id \in TableIDs : FirstProcess /\ Pause(id)
    \/ FirstProcess /\ SerializeBegin
    \/ FirstProcess /\ SerializeNext
    \/ FirstProcess /\ SerializeLock
    \/ \E ok \in BOOLEAN : FirstProcess /\ SerializeMarshal(ok)
    \/ \E ok \in BOOLEAN : FirstProcess /\ SerializeWrite(ok)
    \/ FirstProcess /\ Exit
    \/ \E id \in TableIDs, how \in {"unreadable", "undecodable"} :
          FirstProcess /\ Damage(id, how)
    \/ Start
    \/ RestoreReadDir
    \/ \E removed \in BOOLEAN : RestoreFile(removed)
    \/ RestoreReturn
    \/ \E id \in TableIDs : CheckTimer(id)

\* The scheduler is fair to the watchers: a countdown that can elapse does.
SpecTimer ==
    /\ InitPersist
    /\ [][NextTimer]_vars
    /\ \A id \in TableIDs : WF_vars(CheckTimer(id))



NextLobby ==
    \/ \E u \in Users : step1(u)
    \/ \E u \in Users, g \in GameIDs : spectate(u, g)
    \/ \E u \in Users, g \in GameIDs : rejoin(u, g)
    \/ \E g \in GameIDs : startGame(g)
    \/ \E g \in GameIDs : nextTurn(g)
    \/ \E g \in GameIDs : endGame(g)

SpecLobby == InitLobby /\ [][NextLobby]_vars

\* The notes part starts when the client has entered a game as a player or
\* as a spectator, or a replay: every note is the empty string ("all notes
\* are initialized to an empty string"), the note lists hold an entry per
\* user, ours among them, and some cards are clued.  The other parts are at
\* rest.
InitNotes ==
    /\ \E spectating \in BOOLEAN, replay \in BOOLEAN :
          globals = [ourNotes |-> [o \in Orders |-> ""],
                     allNotes |-> [o \in Orders |->
                         [i \in 1..(NumOthers + 1) |->
                             [name |-> i - 1, note |-> ""]]],
                     lastNote |-> "", spectating |-> spectating,
                     replay |-> replay]
    /\ \E clued \in SUBSET Orders :
          cards = [o \in Orders |->
                      [cluedBorder |-> o \in clued, noteBorder |-> FALSE]]
    /\ conn = << >>
    /\ noteReq = [op |-> "none", order |-> 0, note |-> ""]
    /\ currentGames = << >>
    /\ sockets = [u \in Users |-> [status |-> "Lobby", atTable |-> NoTable]]
    /\ req = [op |-> "none", user |-> 0, gameID |-> 0]
    /\ sent = << >>
    /\ logged = << >>
    /\ phase = "down"
    /\ boots = MaxBoots
    /\ tables = << >>
    /\ tablesMutex = 0
    /\ mutex = [id \in TableIDs |-> "free"]
    /\ act = [id \in TableIDs |-> "idle"]
    /\ ser = SerIdle
    /\ disk = [exists |-> TRUE, files |-> (GitIgnore :> GitIgnoreFile)]
    /\ rst = RstIdle
    /\ spawned = << >>
    /\ snap = << >>

NextNotes ==
    \/ \E order \in Orders, note \in NoteTexts : set(order, note)
    \/ \E order \in Orders, name \in OtherNames, note \in NoteTexts :
          noteReceived(order, name, note)

SpecNotes == InitNotes /\ [][NextNotes]_vars

(***************************************************************************)
(*                    Properties of the leave-table handler                *)
(***************************************************************************)
\* The number of notifications of a kind about a game in a sequence.
CountKind(seq, kind, g) ==
    Cardinality({i \in 1..Len(seq) : seq[i].kind = kind /\ seq[i].gameID = g})

\* The step just taken is the leave-table request of user u.
LeaveBy(u) == req'.op = "leave" /\ req'.user = u

\* The presence flags of a game's players, by seat.
Presence(game) == [i \in 1..Len(game.players) |-> game.players[i].present]

\* The user ids of a game's players, by seat.
Seating(game) == [i \in 1..Len(game.players) |-> game.players[i].userID]

\* C1: for every table, in every reachable state (after any sequence of
\* spectator joins and leave-table requests, aborted ones included), the
\* spectator counter num_spec equals the number of entries of the table's
\* spectator mapping.
C1_NumSpecIsMappingSize ==
    \A g \in DOMAIN currentGames :
        currentGames[g].num_spec = Cardinality(currentGames[g].spectators)

\* C1's case: a leave-table request has just aborted on the "not in the
\* spectators list" path at a table that still has a spectator.
C1_Witness ==
    /\ req.op = "leave"
    /\ logged = << "error" >>
    /\ req.gameID \in DOMAIN currentGames
    /\ currentGames[req.gameID].num_spec >= 1

\* C2: when a session whose role is spectator and that is in the table's
\* spectator mapping sends leave-table mid-game, exactly that user leaves the
\* mapping, the counter decreases by exactly one, exactly one
\* membership-changed and one spectator-count-changed notification are
\* emitted for the table, and the players' presence, the player list and the
\* turn state are unchanged.
C2_SpectatorLeaveEffect ==
    [][\A u \in Users :
        LET g == sockets[u].atTable.id IN
        (/\ LeaveBy(u)
         /\ sockets[u].atTable.spectating
         /\ g \in DOMAIN currentGames
         /\ u \in currentGames[g].spectators
         /\ currentGames[g].running)
        => /\ g \in DOMAIN currentGames'
           /\ currentGames'[g].spectators = currentGames[g].spectators \ {u}
           /\ currentGames'[g].num_spec = currentGames[g].num_spec - 1
           /\ CountKind(sent', "gameMemberChange", g) = 1
           /\ CountKind(sent', "gameNumSpec", g) = 1
           /\ currentGames'[g].players = currentGames[g].players
           /\ currentGames'[g].turn = currentGames[g].turn
           /\ currentGames'[g].running = currentGames[g].running
           /\ \A h \in DOMAIN currentGames \ {g} :
                 h \in DOMAIN currentGames' /\ currentGames'[h] = currentGames[h]
    ]_vars

\* C2's case: a spectator has just left a running game that has players and
\* an advanced turn.
C2_Witness ==
    /\ req.op = "leave"
    /\ Len(sent) = 3
    /\ sent[3].kind = "gameNumSpec"
    /\ req.gameID \in DOMAIN currentGames
    /\ currentGames[req.gameID].running
    /\ currentGames[req.gameID].turn > 0
    /\ Len(currentGames[req.gameID].players) > 0
    /\ req.user \notin currentGames[req.gameID].spectators

\* What C3 says a player's leave-table request does at table g.
PlayerLeaveEffect(u, g) ==
    /\ Len(sent') = 3
    /\ sent'[2] = Notify(IF g \in DOMAIN currentGames /\ currentGames[g].running
                         THEN "gameConnected" ELSE "gameMemberChange", g, 0)
    /\ sent'[3] = Notify("playerTable", g, u)
    /\ DOMAIN currentGames' = DOMAIN currentGames
    /\ \A h \in DOMAIN currentGames \ {g} : currentGames'[h] = currentGames[h]
    /\ g \in DOMAIN currentGames =>
        /\ Seating(currentGames'[g]) = Seating(currentGames[g])
        /\ \A i \in 1..Len(currentGames[g].players) :
              currentGames'[g].players[i].present =
                 IF currentGames[g].players[i].userID = u
                 THEN FALSE ELSE currentGames[g].players[i].present
        /\ currentGames'[g].spectators = currentGames[g].spectators
        /\ currentGames'[g].num_spec = currentGames[g].num_spec
        /\ currentGames'[g].turn = currentGames[g].turn
        /\ currentGames'[g].running = currentGames[g].running

\* C3 as stated: when a session whose role is player sends leave-table, only
\* that player's presence flag changes (to not-present), and a
\* connection-changed (running) or membership-changed (otherwise)
\* notification fires, followed by a table snapshot to the leaving session.
C3_Original ==
    [][\A u \in Users :
        (/\ LeaveBy(u)
         /\ sockets[u].atTable # NoTable
         /\ ~sockets[u].atTable.spectating)
        => PlayerLeaveEffect(u, sockets[u].atTable.id)
    ]_vars

\* C3 as amended: the same, for a session whose table is in the registry.
C3_PlayerLeaveEffect ==
    [][\A u \in Users :
        (/\ LeaveBy(u)
         /\ sockets[u].atTable # NoTable
         /\ ~sockets[u].atTable.spectating
         /\ sockets[u].atTable.id \in DOMAIN currentGames)
        => PlayerLeaveEffect(u, sockets[u].atTable.id)
    ]_vars

\* C3's case: a player has just left a running game in which another player
\* is still present and which has a spectator.
C3_Witness ==
    /\ req.op = "leave"
    /\ Len(sent) = 3
    /\ sent[2].kind = "gameConnected"
    /\ sent[3] = Notify("playerTable", req.gameID, req.user)
    /\ req.gameID \in DOMAIN currentGames
    /\ \E i, j \in 1..Len(currentGames[req.gameID].players) :
          /\ currentGames[req.gameID].players[i].userID = req.user
          /\ ~currentGames[req.gameID].players[i].present
          /\ currentGames[req.gameID].players[j].present
    /\ currentGames[req.gameID].num_spec >= 1

\* C4: a leave-table request of a session whose role is spectator but whose
\* user is absent from the table's spectator mapping aborts: the mapping, the
\* counter and every presence flag are unchanged, no membership-changed or
\* spectator-count-changed notification is emitted, and the table stays in
\* the registry.
C4_InconsistentSpectatorAborts ==
    [][\A u \in Users :
        LET g == sockets[u].atTable.id IN
        (/\ LeaveBy(u)
         /\ sockets[u].atTable.spectating
         /\ g \in DOMAIN currentGames
         /\ u \notin currentGames[g].spectators)
        => /\ DOMAIN currentGames' = DOMAIN currentGames
           /\ currentGames'[g].spectators = currentGames[g].spectators
           /\ currentGames'[g].num_spec = currentGames[g].num_spec
           /\ Presence(currentGames'[g]) = Presence(currentGames[g])
           /\ CountKind(sent', "gameMemberChange", g) = 0
           /\ CountKind(sent', "gameNumSpec", g) = 0
           /\ logged' = << "error" >>
    ]_vars

\* C4's case: the request has just aborted at a table that has another
\* spectator, and that table is still in the registry with its spectator.
C4_Witness ==
    /\ req.op = "leave"
    /\ logged = << "error" >>
    /\ sockets[req.user].atTable.spectating
    /\ req.gameID \in DOMAIN currentGames
    /\ req.user \notin currentGames[req.gameID].spectators
    /\ currentGames[req.gameID].spectators # {}
    /\ currentGames[req.gameID].running

\* C5: a leave-table request that fails validation (its table is not in the
\* registry, or the spectator-role inconsistency) leaves all state unchanged,
\* the requesting session's status included, and emits no status-changed
\* broadcast.
C5_FailedValidationChangesNothing ==
    [][\A u \in Users :
        LET g == sockets[u].atTable.id IN
        (/\ LeaveBy(u)
         /\ sockets[u].atTable # NoTable
         /\ \/ g \notin DOMAIN currentGames
            \/ /\ sockets[u].atTable.spectating
               /\ u \notin currentGames[g].spectators)
        => /\ currentGames' = currentGames
           /\ sockets' = sockets
           /\ \A i \in 1..Len(sent') : sent'[i].kind # "allUserChange"
    ]_vars


\* The step is a leave-table request of user u, whose session's recorded
\* role is spectator of table g, which is in the registry.
SpectatorLeave(u, g) ==
    /\ LeaveBy(u)
    /\ sockets[u].atTable = [id |-> g, spectating |-> TRUE]
    /\ g \in DOMAIN currentGames

\* C19: for any sequence of leave-table requests sent by the same spectator
\* session after it attached once, the user is removed from the spectator
\* mapping and the spectator counter is decremented exactly once: every
\* later request takes the abort path, and the counter never goes below
\* zero.  (A request removes and decrements only when the user is in the
\* mapping and leaves the user out of it; only a new attach puts the user
\* back; the session's recorded table does not change between attaches.)
C19_RepeatedLeaveDecrementsOnce ==
    /\ [][\A u \in Users, g \in GameIDs :
             SpectatorLeave(u, g) =>
                /\ g \in DOMAIN currentGames'
                /\ u \notin currentGames'[g].spectators
                /\ sockets'[u].atTable = sockets[u].atTable
                /\ IF u \in currentGames[g].spectators
                   THEN /\ currentGames'[g].spectators =
                              currentGames[g].spectators \ {u}
                        /\ currentGames'[g].num_spec = currentGames[g].num_spec - 1
                        /\ logged' = << >>
                   ELSE /\ currentGames' = currentGames
                        /\ logged' = << "error" >>
                        /\ CountKind(sent', "gameNumSpec", g) = 0]_vars
    /\ [][\A u \in Users, g \in GameIDs :
             (/\ g \in DOMAIN currentGames
              /\ g \in DOMAIN currentGames'
              /\ u \notin currentGames[g].spectators
              /\ u \in currentGames'[g].spectators)
             => req' = [op |-> "spectate", user |-> u, gameID |-> g]]_vars
    /\ [][\A g \in GameIDs :
             (g \in DOMAIN currentGames /\ g \in DOMAIN currentGames'
              /\ currentGames'[g].num_spec < currentGames[g].num_spec)
             => /\ req'.op = "leave"
                /\ req'.user \in currentGames[g].spectators
                /\ currentGames'[g].num_spec = currentGames[g].num_spec - 1]_vars
    /\ [](\A g \in DOMAIN currentGames : currentGames[g].num_spec >= 0)

\* C19's case: a session that attached to a lobby table and left it has sent
\* leave-table again; the request aborted and the counter still counts the
\* one other spectator.
C19_Witness ==
    /\ req.op = "leave"
    /\ logged = << "error" >>
    /\ sockets[req.user].atTable = [id |-> req.gameID, spectating |-> TRUE]
    /\ sockets[req.user].status = "Lobby"
    /\ req.gameID \in DOMAIN currentGames
    /\ ~currentGames[req.gameID].running
    /\ req.user \notin currentGames[req.gameID].spectators
    /\ currentGames[req.gameID].num_spec = 1
    /\ Cardinality(currentGames[req.gameID].spectators) = 1

(***************************************************************************)
(*                Properties of persistence and recovery                   *)
(***************************************************************************)
\* The goroutines restoreTables started running fn for table id.
Started(fn, id) == {k \in 1..Len(spawned) : spawned[k].fn = fn /\ spawned[k].id = id}

\* restoreTables has handled every file of its loop and is about to return.
RestoreComplete == phase = "boot" /\ rst.pc = "loop" /\ rst.i > Len(rst.files)

\* restoreTables has returned and no serialization pass has begun since.
Started0 == phase = "live" /\ rst.pc = "done" /\ ser.pc = "idle"

\* The tables the loop of restoreTables has put in the registry, while
\* nothing else has touched them: the registry during startup.
DuringRestore == phase = "boot"

\* C6: a serialization pass writes a record for a table if and only if the
\* table is running and not a replay at the moment its snapshot is taken;
\* each such table gets exactly one record, named by its identifier, and
\* lobby or replay tables get none, also when the flags are changed by a
\* concurrent action during the pass.
C6_RecordIffOngoingAtSnapshot ==
    /\ \A id \in DOMAIN snap : Ongoing(snap[id])
    /\ (phase = "live" /\ ser.pc # "idle") =>
          \A id \in DOMAIN snap :
             /\ TableFilename(id) \in DOMAIN disk.files
             /\ disk.files[TableFilename(id)].json = Marshal(snap[id])
             /\ snap[id].ID = id
    /\ (phase = "live" /\ ser.pc = "write") => Ongoing(ser.src)

\* C7: for every running, non-replay table, serializeTables followed
\* immediately by restoreTables yields a table registered under the same
\* identifier whose Game has an action log, played stacks, discard pile and
\* clue-token count identical to those before serialization, and in which
\* every player is marked not-present.
C7_RoundTripIdentical ==
    /\ DuringRestore =>
          \A id \in DOMAIN tables \cap DOMAIN snap :
             Ongoing(snap[id]) =>
                /\ tables[id].ID = id
                /\ tables[id].Game.Actions = snap[id].Game.Actions
                /\ tables[id].Game.Stacks = snap[id].Game.Stacks
                /\ tables[id].Game.DiscardPile = snap[id].Game.DiscardPile
                /\ tables[id].Game.ClueTokens = snap[id].Game.ClueTokens
                /\ \A i \in 1..Len(tables[id].Players) :
                      ~tables[id].Players[i].Present
    /\ (RestoreComplete \/ Started0) =>
          \A id \in DOMAIN snap : Ongoing(snap[id]) => id \in DOMAIN tables

\* C8: after recovery every entry of a table's action log has the kind it
\* had before serialization, none is left as a generic untyped record, and
\* the log's length and order are unchanged.
C8_ActionKindsRestored ==
    DuringRestore =>
       \A id \in DOMAIN tables \cap DOMAIN snap :
          /\ Len(tables[id].Game.Actions) = Len(snap[id].Game.Actions)
          /\ \A i \in 1..Len(tables[id].Game.Actions) :
                /\ tables[id].Game.Actions[i].type = snap[id].Game.Actions[i].type
                /\ tables[id].Game.Actions[i].arg = snap[id].Game.Actions[i].arg
                /\ tables[id].Game.Actions[i].goType # "map"
                /\ tables[id].Game.Actions[i].goType =
                      snap[id].Game.Actions[i].goType

\* C9: recovering a timed table adds the grace allowance (20 seconds) to the
\* active player's time only, so that time is at least the pre-shutdown
\* value and every other player's time is unchanged, and arms exactly one
\* turn-timer watcher, for the recovered turn, pause count and active
\* player; recovering an untimed table changes no time and arms no timer.
C9_GraceAndTimer ==
    DuringRestore =>
       \A id \in DOMAIN tables \cap DOMAIN snap :
          LET g == tables[id].Game
              before == snap[id].Game
              active == before.ActivePlayerIndex + 1
          IN
          IF snap[id].Options.Timed
          THEN /\ g.Players[active].Time = before.Players[active].Time + 20
               /\ g.Players[active].Time >= before.Players[active].Time
               /\ \A i \in 1..Len(g.Players) :
                     i # active => g.Players[i].Time = before.Players[i].Time
               /\ Cardinality(Started("CheckTimer", id)) = 1
               /\ \A k \in Started("CheckTimer", id) :
                     /\ spawned[k].turn = before.Turn
                     /\ spawned[k].pauseCount = before.PauseCount
                     /\ spawned[k].player = before.ActivePlayerIndex
          ELSE /\ \A i \in 1..Len(g.Players) :
                     g.Players[i].Time = before.Players[i].Time
               /\ Started("CheckTimer", id) = {}

\* C9's case: a timed table whose game was paused and is at its second turn
\* (the active player is not the first) and an untimed table have both been
\* recovered.
C9_Witness ==
    /\ DuringRestore
    /\ \E id, other \in DOMAIN tables \cap DOMAIN snap :
          /\ snap[id].Options.Timed
          /\ snap[id].Game.Turn = 1
          /\ snap[id].Game.PauseCount = 1
          /\ snap[id].Game.ActivePlayerIndex = 1
          /\ ~snap[other].Options.Timed

\* The records the current run of restoreTables found in the directory.
ListedRecords == {rst.files[k] : k \in 1..Len(rst.files)} \ {GitIgnore}

\* C10: if restoreTables returns, every stored record other than the
\* housekeeping file has been decoded, put in the registry under its
\* identifier, given an idle-timeout watcher, and its record deleted; if
\* the directory is missing or a record fails to read or decode, startup
\* ends fatally and never reaches the started state with a partial
\* registry.
C10_RecoveryAllOrNothing ==
    /\ [](RestoreComplete =>
            /\ disk.exists
            /\ GitIgnore \in DOMAIN disk.files
            /\ \A name \in ListedRecords :
                  /\ name \notin DOMAIN disk.files
                  /\ name \in DOMAIN tables
                  /\ tables[name].ID = name
                  /\ name \in DOMAIN snap
                  /\ tables[name].Game.Turn = snap[name].Game.Turn
                  /\ tables[name].Game.Stacks = snap[name].Game.Stacks
                  /\ tables[name].Options = snap[name].Options
                  /\ Cardinality(Started("CheckIdle", name)) = 1)
    /\ [](phase = "live" =>
            /\ rst.pc = "done"
            /\ \A name \in ListedRecords :
                  /\ name \in DOMAIN tables
                  /\ Cardinality(Started("CheckIdle", name)) = 1)
    /\ [](Started0 => \A name \in ListedRecords : name \notin DOMAIN disk.files)
    /\ [][(/\ phase = "boot"
           /\ \/ rst.pc = "readdir" /\ ~disk.exists
              \/ /\ rst.pc = "loop"
                 /\ rst.i <= Len(rst.files)
                 /\ rst.files[rst.i] # GitIgnore
                 /\ \/ ~disk.files[rst.files[rst.i]].readable
                    \/ ~disk.files[rst.files[rst.i]].valid)
          => phase' = "fatal"]_vars
    /\ [][phase = "fatal" => phase' # "live"]_vars

\* C10's case: restoreTables has returned after recovering two records.
C10_Witness ==
    /\ Started0
    /\ Cardinality(ListedRecords) = 2
    /\ ListedRecords \subseteq DOMAIN tables

\* The tables that had a durable record when the recovery that follows the
\* last serialization pass began: the tables that pass wrote a record for
\* (a completed recovery leaves no record behind, so no older one exists).
RecordedAtRecovery == DOMAIN snap

\* A process is running: its registry exists.
ProcessRuns == phase \in {"boot", "live"}

\* C11: no in-progress game is lost across restarts: at every point from the
\* start of a recovery run onward, also when the run ends fatally on a later
\* record and the process is started again, every table that had a durable
\* record when recovery began still has its record or is in the registry of
\* the running process.
C11_NoGameLostAcrossRestarts ==
    phase \in {"boot", "fatal"} =>
       \A id \in RecordedAtRecovery :
          \/ TableFilename(id) \in DOMAIN disk.files
          \/ ProcessRuns /\ id \in DOMAIN tables

\* A serialization pass that has returned false: it stopped at table ser.cur.
PassFailed == phase = "live" /\ ser.pc = "returned" /\ ser.result = "false"

\* C12: if encoding or writing the record of a table fails during a
\* serialization pass, the pass stops at that table and reports failure: no
\* table later in the enumeration is written, and the pass reports success
\* only if every running, non-replay table (every table its range found
\* ongoing) was written.
C12_FailureStopsThePass ==
    /\ [](PassFailed =>
            /\ ser.cur \in ser.found
            /\ ser.cur \notin DOMAIN snap
            /\ DOMAIN snap = ser.found \ {ser.cur}
            /\ \A id \in ser.todo : id \notin DOMAIN snap)
    /\ [](ser.result = "true" =>
            /\ ser.todo = {}
            /\ \A id \in ser.found :
                  /\ id \in DOMAIN snap
                  /\ TableFilename(id) \in DOMAIN disk.files
                  /\ disk.files[TableFilename(id)].json = Marshal(snap[id]))
    /\ [][(ser.pc \in {"marshal", "write"} /\ ser'.pc \notin {ser.pc, "write", "range"})
          => /\ ser'.pc = "returned"
             /\ ser'.result = "false"
             /\ disk' = disk]_vars
    /\ [][PassFailed => disk' = disk /\ snap' = snap]_vars

\* C12's case: a pass has failed at one ongoing table after it wrote another
\* one, or before it came to another ongoing table.
C12_Witness ==
    /\ PassFailed
    /\ \/ DOMAIN snap # {}
       \/ \E id \in ser.todo : Ongoing(tables[id])

\* A table in the middle of a validate-and-apply step: the entry of the
\* action is in the log and the turn entry (or, for a game-over, the replay
\* flag) that completes the step is not there yet.
HalfApplied(t) ==
    /\ t.Running
    /\ LET last == t.Game.Actions[Len(t.Game.Actions)] IN
       \/ last.type \in {"clue", "play", "discard"}
       \/ last.type = "gameOver" /\ ~t.Replay

\* The whole steps of a game are counted by its turn index.
WholeSteps(t) ==
    t.Running =>
       Cardinality({i \in 1..Len(t.Game.Actions) :
                       t.Game.Actions[i].type = "turn"}) = t.Game.Turn

\* C13: the snapshot of a table taken by serializeTables never races an
\* in-progress mutation of that table: under any interleaving with
\* concurrent action processing the encoded state is the table's state
\* entirely before or entirely after each validate-and-apply step, never a
\* partially applied action.
C13_SnapshotNeverPartial ==
    /\ [](phase = "live" /\ ser.pc = "write" =>
            /\ ~HalfApplied(ser.src)
            /\ WholeSteps(ser.src)
            /\ ser.buf = Marshal(ser.src))
    /\ [](\A id \in DOMAIN snap : ~HalfApplied(snap[id]) /\ WholeSteps(snap[id]))
    /\ [](\A id \in DOMAIN disk.files :
             id # GitIgnore =>
                ~HalfApplied(Unmarshal(disk.files[id].json)))
    /\ [][(ser.pc = "marshal" /\ ser'.pc = "write") =>
             /\ act[ser.cur] = "idle"
             /\ mutex[ser.cur] = "serializeTables"
             /\ ser'.src = tables[ser.cur]]_vars

\* C13's case: the pass has encoded a table that an action has been applied
\* to, while an action on the other table has applied its first half and
\* holds that table's lock.
C13_Witness ==
    /\ phase = "live"
    /\ ser.pc = "write"
    /\ ser.src.Game.Turn >= 1
    /\ \E id \in DOMAIN tables :
          /\ id # ser.cur
          /\ mutex[id] = "action"
          /\ HalfApplied(tables[id])

\* The turns a game can be at.
TurnIndices == 0..(MaxLog + 2 * MaxForced)

\* Table id has been recovered by this process, which is started; it is a
\* timed table with a game in progress at turn n, and no client acts on it.
RecoveredAtTurn(id, n) ==
    /\ phase = "live"
    /\ ~FirstProcess
    /\ id \in DOMAIN tables
    /\ tables[id].Options.Timed
    /\ Ongoing(tables[id])
    /\ tables[id].Game.Turn = n
    /\ Ended(id) = {}

\* The turn index of table id has advanced beyond n by a default move.
AdvancedBeyond(id, n) ==
    /\ phase = "live"
    /\ id \in DOMAIN tables
    /\ tables[id].Game.Turn > n
    /\ tables[id].Game.Actions[Len(tables[id].Game.Actions) - 1].type = "discard"

\* C14: a recovered timed table cannot stall: under fair scheduling, if no
\* client action arrives after recovery, the countdown of the re-armed
\* watcher for the active player eventually elapses and a default action is
\* applied, so the turn index eventually advances.
C14_RecoveredTimedTableAdvances ==
    \A id \in TableIDs : \A n \in TurnIndices :
       RecoveredAtTurn(id, n) ~> AdvancedBeyond(id, n)

\* C14's case: the watcher of a table recovered at its second turn, after a
\* pause, has applied the default move.
C14_Witness ==
    /\ phase = "live"
    /\ ~FirstProcess
    /\ \E id \in DOMAIN tables \cap DOMAIN snap :
          /\ snap[id].Options.Timed
          /\ snap[id].Game.Turn = 1
          /\ snap[id].Game.PauseCount = 1
          /\ Ended(id) # {}
          /\ AdvancedBeyond(id, 1)

\* The back-references of a table are in place.
Linked(t) ==
    /\ t.Game.Table = t.ID
    /\ t.Game.Options = t.Options
    /\ t.Game.ExtraOptions = t.ExtraOptions
    /\ t.Game.Options.linked
    /\ t.Game.ExtraOptions.linked
    /\ Len(t.Game.Players) = NumSeats
    /\ \A i \in 1..Len(t.Game.Players) : t.Game.Players[i].Game = t.ID

\* C16: after recovery of any table the back-references dropped by
\* serialization are re-established: the Game's table reference is its
\* owning Table, the Game's options and extra options equal the Table's,
\* and every game-player record of that Game refers back to that same Game.
C16_BackReferencesRestored ==
    /\ (phase \in {"boot", "fatal"}) => \A id \in DOMAIN tables : Linked(tables[id])
    /\ (phase = "live" /\ rst.pc = "done") =>
          \A id \in ListedRecords : id \in DOMAIN tables /\ Linked(tables[id])

\* C16's case: a timed and an untimed table have been recovered from
\* records, which hold none of the references.
C16_Witness ==
    /\ RestoreComplete
    /\ \E id, other \in DOMAIN tables \cap DOMAIN snap :
          /\ tables[id].Game.Options.Timed
          /\ ~tables[other].Game.Options.Timed
          /\ Unmarshal(Marshal(snap[id])).Game.Table = Nil
          /\ ~Linked(Unmarshal(Marshal(snap[id])))

\* The tables whose lock serializeTables holds.
HeldByPass == {id \in TableIDs : mutex[id] = "serializeTables"}

\* The step takes the lock of table id for serializeTables.
PassLocks(id) == mutex[id] # "serializeTables" /\ mutex'[id] = "serializeTables"

\* C17: in the serialization pass the table-registry lock is always acquired
\* before any individual table lock and never the other way round: a table
\* lock is taken only while the registry read lock is held, and at most one
\* table lock is held at a time, so the pass cannot form a lock-order cycle
\* with action processing (an action the pass waits for can always end).
C17_RegistryLockBeforeTableLock ==
    /\ [][\A id \in TableIDs :
             PassLocks(id) =>
                /\ tablesMutex >= 1
                /\ tablesMutex' = tablesMutex
                /\ ser.pc = "lock"
                /\ HeldByPass = {}]_vars
    /\ [][tablesMutex' > tablesMutex => HeldByPass = {} /\ ser.pc = "idle"]_vars
    /\ [](Cardinality(HeldByPass) <= 1)
    /\ []((phase = "live" /\ ser.pc = "lock" /\ mutex[ser.cur] = "action")
            => ENABLED ActionEnd(ser.cur))

\* C17's case: the pass holds the registry read lock and the lock of the
\* second table of its range, the first one released and written, while an
\* action holds the lock of that first table.
C17_Witness ==
    /\ phase = "live"
    /\ ser.pc = "marshal"
    /\ tablesMutex = 1
    /\ HeldByPass = {ser.cur}
    /\ \E id \in DOMAIN snap : id # ser.cur /\ mutex[id] = "action"

\* C18: on every exit path of serializeTables, success or failure (encode
\* error, write error), every lock it acquired has been released when it
\* returns: no table's exclusive lock and no registry lock remains held, so
\* actions on that table submitted after the pass can still take the
\* table's lock.
C18_LocksReleasedOnEveryExit ==
    (phase = "live" /\ ser.pc = "returned") =>
       /\ tablesMutex = 0
       /\ HeldByPass = {}
       /\ \A id \in DOMAIN tables : mutex[id] \in {"free", "action"}

(***************************************************************************)
(*                     Properties of the client's notes                    *)
(***************************************************************************)
\* The step is a call set(order, note).
IsSet(order, note) ==
    noteReq' = [op |-> "set", order |-> order, note |-> note]

\* C15: notes of different users on the same card coexist independently: a
\* note set (order, note) by one user changes only that user's own note for
\* that card slot (ourNotes[order] and, when spectating, the entries of
\* allNotes[order] that carry the user's own name) and leaves every other
\* user's note on that card and every note on every other card slot
\* unchanged.
C15_SetChangesOwnNoteOnly ==
    [][\A order \in Orders, note \in NoteTexts :
          IsSet(order, note) =>
             /\ globals'.ourNotes[order] = note
             /\ \A o \in Orders \ {order} :
                   /\ globals'.ourNotes[o] = globals.ourNotes[o]
                   /\ globals'.allNotes[o] = globals.allNotes[o]
             /\ Len(globals'.allNotes[order]) = Len(globals.allNotes[order])
             /\ \A i \in 1..Len(globals.allNotes[order]) :
                   LET before == globals.allNotes[order][i]
                       after == globals'.allNotes[order][i]
                   IN
                   /\ after.name = before.name
                   /\ before.name # Username => after.note = before.note
                   /\ before.name = Username =>
                         after.note = IF globals.spectating THEN note
                                      ELSE before.note
    ]_vars

\* C15's case: as a spectator the user has replaced the note "cm" on a card
\* by the empty note, on which another user's note is "cm", and has a note
\* on another card.
C15_Witness ==
    /\ noteReq.op = "set"
    /\ noteReq.note = ""
    /\ conn # << >>
    /\ globals.spectating
    /\ \E i, j \in 1..Len(globals.allNotes[noteReq.order]) :
          /\ globals.allNotes[noteReq.order][i].name # Username
          /\ globals.allNotes[noteReq.order][i].note = "cm"
          /\ globals.allNotes[noteReq.order][j].name = Username
          /\ globals.allNotes[noteReq.order][j].note = ""
    /\ \E o \in Orders \ {noteReq.order} : globals.ourNotes[o] = "cm"

=============================================================================
